---- MODULE Spec2Model ----
(***************************************************************************)
(* A model of src/app.py: the Flask handler processar_foto, which decodes  *)
(* a data-URL image, optionally stores the original as JPEG, converts to   *)
(* grayscale, resizes, normalizes, quantizes, encodes as PNG and uploads   *)
(* the result to a Supabase bucket.                                        *)
(*                                                                         *)
(* Each worker handles one request.  The handler is cut into steps at the  *)
(* points where it can return or raise; every storage call is a step of    *)
(* its own, so that concurrent requests interleave at storage calls.       *)
(*                                                                         *)
(* Strings are sequences of chunks.  Samples of floating-point buffers are *)
(* exact rationals: a grayscale sample is a numerator over GrayDen, a      *)
(* normalized sample is a pair <<numerator, denominator>>.                 *)
(***************************************************************************)
EXTENDS Integers, Sequences, FiniteSets, TLC

VARIABLES
    pc,       \* pc[w]: the position of worker w in processar_foto
    req,      \* req[w]: the request worker w received
    loc,      \* loc[w]: the local variables of processar_foto
    resp,     \* resp[w]: the responses returned for w's request, in order
    events,   \* events[w]: the stages run and storage calls made, in order
    bucket,   \* the objects held by the storage collaborator
    today     \* the UTC day of dt.datetime.utcnow()

vars == <<pc, req, loc, resp, events, bucket, today>>

----------------------------------------------------------------------------
(* Bounds of the model *)

\* target heights range over 0..MaxH
MaxH == 2
\* target widths range over 0..MaxW
MaxW == 1
\* uuid4 draws range over 1..MaxUuid
MaxUuid == 2
\* the UTC day ranges over 0..MaxDay
MaxDay == 1

(* Program constants *)

\* skimage rgb2gray: Y = 0.2125 R + 0.7154 G + 0.0721 B, in ten-thousandths
WeightR == 2125
WeightG == 7154
WeightB == 721
\* the largest uint8 sample
MaxU8 == 255
\* denominator of a grayscale sample: 255 * 10000
GrayDen == MaxU8 * (WeightR + WeightG + WeightB)

\* Worker 1 handles the request of the sequential specification; the concurrent
\* specification runs two requests side by side (a collision of storage paths
\* is between two uploads).
Workers == {1, 2}

----------------------------------------------------------------------------
(* Images the decoder can produce.  cv2.imdecode(..., IMREAD_COLOR) always  *)
(* yields a 3-channel BGR uint8 array.                                      *)

Pixels(h, w) == (1..h) \X (1..w)

White1x1 == [h |-> 1, w |-> 1, px |-> [p \in Pixels(1, 1) |-> <<255, 255, 255>>]]
Black1x1 == [h |-> 1, w |-> 1, px |-> [p \in Pixels(1, 1) |-> <<0, 0, 0>>]]
\* one red pixel beside one black pixel (BGR order)
RedBlack1x2 ==
    [h |-> 1, w |-> 2,
     px |-> [p \in Pixels(1, 2) |-> IF p[2] = 1 THEN <<0, 0, 255>> ELSE <<0, 0, 0>>]]
\* a white pixel above a blue pixel (BGR order)
WhiteBlue2x1 ==
    [h |-> 2, w |-> 1,
     px |-> [p \in Pixels(2, 1) |-> IF p[1] = 1 THEN <<255, 255, 255>> ELSE <<255, 0, 0>>]]

NoImage == [h |-> 0, w |-> 0, px |-> [p \in {} |-> <<0, 0, 0>>]]

\* the bytes of an encoded file, by name
ImageOf(bytes) ==
    CASE bytes = "png:white1x1" -> White1x1
      [] bytes = "png:black1x1" -> Black1x1
      [] bytes = "jpg:redblack1x2" -> RedBlack1x2
      [] bytes = "png:whiteblue2x1" -> WhiteBlue2x1
      [] OTHER -> NoImage

ImageFiles == {"png:white1x1", "png:black1x1", "jpg:redblack1x2", "png:whiteblue2x1"}
\* the other files, "png:truncated" and "text", are not decodable as images

----------------------------------------------------------------------------
(* Strings: the imagem field is a sequence of chunks; "," is the separator. *)
(* A chunk "b64:<file>" is the base64 text of <file>; "b64:badpad" is text  *)
(* of base64 characters whose length is not a multiple of four.             *)

Header == "data:image/png;base64"
PayloadChunks ==
    {"b64:png:white1x1", "b64:png:black1x1", "b64:jpg:redblack1x2",
     "b64:png:whiteblue2x1", "b64:png:truncated", "b64:text", "b64:badpad"}

\* the file a payload chunk is the base64 text of
FileOfChunk(c) ==
    CASE c = "b64:png:white1x1" -> "png:white1x1"
      [] c = "b64:png:black1x1" -> "png:black1x1"
      [] c = "b64:jpg:redblack1x2" -> "jpg:redblack1x2"
      [] c = "b64:png:whiteblue2x1" -> "png:whiteblue2x1"
      [] c = "b64:png:truncated" -> "png:truncated"
      [] c = "b64:text" -> "text"
      [] OTHER -> "invalid"

\* str.split(","): the segments between separators (always at least one)
RECURSIVE Split(_)
Split(s) ==
    IF \A i \in 1..Len(s) : s[i] # ","
    THEN <<s>>
    ELSE LET k == CHOOSE i \in 1..Len(s) :
                     s[i] = "," /\ \A j \in 1..(i - 1) : s[j] # ","
         IN <<SubSeq(s, 1, k - 1)>> \o Split(SubSeq(s, k + 1, Len(s)))

\* the index (from 1) of the segment data["imagem"].split(",")[1] selects
PayloadIndex == 2

ExtractFirstSegment(imagem) ==
    [ok |-> TRUE, b64 |-> Split(imagem)[1]]

\* lines 82-86: b64 = data["imagem"].split(",")[1], IndexError caught
ExtractB64(imagem) ==
    LET parts == Split(imagem)
    IN IF Len(parts) >= PayloadIndex
       THEN [ok |-> TRUE, b64 |-> parts[PayloadIndex]]
       ELSE [ok |-> FALSE, b64 |-> <<>>]

\* base64.b64decode(b64): the empty string decodes to no bytes; text with
\* incorrect padding (and the header, 19 base64 characters) raises binascii.Error
B64Decode(b64) ==
    IF b64 = <<>> THEN [ok |-> TRUE, bytes |-> "empty"]
    ELSE IF Len(b64) = 1 /\ FileOfChunk(b64[1]) # "invalid"
         THEN [ok |-> TRUE, bytes |-> FileOfChunk(b64[1])]
         ELSE [ok |-> FALSE, bytes |-> "empty"]

\* cv2.imdecode(arr, IMREAD_COLOR): the outcomes for a byte buffer.  An
\* empty buffer returns None or raises cv2.error, depending on the OpenCV build.
ImDecodeOutcomes(bytes) ==
    IF bytes \in ImageFiles THEN {"image"}
    ELSE IF bytes = "empty" THEN {"none", "raise"}
    ELSE {"none"}

----------------------------------------------------------------------------
(* Pixel arithmetic *)

\* cv2.cvtColor(img, COLOR_BGR2RGB) and COLOR_RGB2BGR: reverse the channels
SwapChannels(img) ==
    [img EXCEPT !.px = [p \in DOMAIN img.px |-> <<img.px[p][3], img.px[p][2], img.px[p][1]>>]]

\* skcolor.rgb2gray of a uint8 RGB image: a float image in [0, 1], each sample
\* (0.2125 R + 0.7154 G + 0.0721 B) / 255, held as a numerator over GrayDen
Rgb2Gray(rgb) ==
    [h |-> rgb.h, w |-> rgb.w,
     px |-> [p \in DOMAIN rgb.px |->
                WeightR * rgb.px[p][1] + WeightG * rgb.px[p][2] + WeightB * rgb.px[p][3]]]

NoBuffer == [h |-> 0, w |-> 0, px |-> [p \in {} |-> 0]]

SetMax(S) == CHOOSE x \in S : \A y \in S : y <= x
SetMin(S) == CHOOSE x \in S : \A y \in S : x <= y
Samples(buf) == {buf.px[p] : p \in DOMAIN buf.px}

\* A tamanho element is a JSON value [t, v]: the integer v (t = "int"), the
\* float v/2 (t = "float") or a non-numeric string (t = "text").
JInt(n) == [t |-> "int", v |-> n]
JFloat(halves) == [t |-> "float", v |-> halves]
JText == [t |-> "text", v |-> 0]

\* int(x): an integer is itself, a float is truncated towards zero
IntOf(x) ==
    IF x.t = "float"
    THEN IF x.v >= 0 THEN x.v \div 2 ELSE -((-x.v) \div 2)
    ELSE x.v

\* line 136: h, w = map(int, data["tamanho"]); raises unless tamanho has
\* exactly two elements that int() accepts
ParseTamanho(t) ==
    IF Len(t) = 2 /\ \A i \in 1..2 : t[i].t # "text"
    THEN [ok |-> TRUE, h |-> IntOf(t[1]), w |-> IntOf(t[2])]
    ELSE [ok |-> FALSE, h |-> 0, w |-> 0]

\* the values a resampled sample can take: resize (order 1, a Gaussian
\* pre-filter, clip = True) yields weighted means of input samples, so every
\* output sample lies between the smallest and the largest input sample
ResampleLevels(gray) ==
    LET lo == SetMin(Samples(gray))
        hi == SetMax(Samples(gray))
    IN {lo, (lo + hi) \div 2, hi}

ResizeShapeSwapped(h, w) == <<w, h>>

\* the shape of sktf.resize(img, (h, w), ...)
ResizeShape(h, w) == <<h, w>>

\* lines 137-142: the outcomes of sktf.resize(img_gray_f, (h, w),
\* anti_aliasing=True).  A negative size raises.  A size of zero raises
\* inside resize or yields an empty array, depending on the library build.
ResizeOutcomes(gray, h, w) ==
    IF h < 0 \/ w < 0 THEN {[ok |-> FALSE, buf |-> NoBuffer]}
    ELSE IF h = 0 \/ w = 0
         THEN {[ok |-> FALSE, buf |-> NoBuffer],
               [ok |-> TRUE,
                buf |-> [h |-> ResizeShape(h, w)[1], w |-> ResizeShape(h, w)[2],
                         px |-> [p \in {} |-> 0]]]}
         ELSE LET shape == ResizeShape(h, w)
              IN {[ok |-> TRUE, buf |-> [h |-> shape[1], w |-> shape[2], px |-> f]] :
                     f \in [Pixels(shape[1], shape[2]) -> ResampleLevels(gray)]}

----------------------------------------------------------------------------
(* Rationals <<numerator, denominator>>, denominator > 0 *)

RatLeq(a, b) == IF a[2] = b[2] THEN a[1] <= b[1] ELSE a[1] * b[2] <= b[1] * a[2]
RatEq(a, b) == RatLeq(a, b) /\ RatLeq(b, a)
RatMax(S) == CHOOSE x \in S : \A y \in S : RatLeq(y, x)
RatMin(S) == CHOOSE x \in S : \A y \in S : RatLeq(x, y)
Zero == <<0, 1>>
One == <<1, 1>>

NoNormBuffer == [h |-> 0, w |-> 0, px |-> [p \in {} |-> Zero]]

NormalizeNoDivision(buf) ==
    [h |-> buf.h, w |-> buf.w, px |-> [p \in DOMAIN buf.px |-> <<buf.px[p], GrayDen>>]]

\* lines 146-148: maxv = float(proc_f.max()); if maxv > 0: proc_f = proc_f / maxv
NormalizeBuf(buf) ==
    LET maxv == SetMax(Samples(buf))
    IN IF maxv > 0
       THEN [h |-> buf.h, w |-> buf.w,
             px |-> [p \in DOMAIN buf.px |-> <<buf.px[p], maxv>>]]
       ELSE [h |-> buf.h, w |-> buf.w,
             px |-> [p \in DOMAIN buf.px |-> <<buf.px[p], GrayDen>>]]

\* np.clip(x, 0.0, 1.0)
Clip(x) == IF RatLeq(x, Zero) THEN Zero ELSE IF RatLeq(One, x) THEN One ELSE x

\* ndarray.round(): to the nearest integer, a tie to the even one; a >= 0, b > 0
RoundHalfEven(a, b) ==
    LET fl == a \div b
        rem == a % b
    IN IF 2 * rem < b THEN fl
       ELSE IF 2 * rem > b THEN fl + 1
       ELSE IF fl % 2 = 0 THEN fl ELSE fl + 1

\* line 154: (np.clip(proc_f, 0.0, 1.0) * 255.0).round().astype(np.uint8)
QuantizeSample(x) ==
    LET c == Clip(x)
    IN RoundHalfEven(MaxU8 * c[1], c[2]) % (MaxU8 + 1)

Quantize(norm) ==
    [h |-> norm.h, w |-> norm.w, px |-> [p \in DOMAIN norm.px |-> QuantizeSample(norm.px[p])]]

----------------------------------------------------------------------------
(* Storage paths and the storage collaborator *)

NoPath == [date |-> 0, id |-> 0, suffix |-> "", ext |-> ""]

UniquePathFixedId(day, id, suffix) ==
    [date |-> day, id |-> 0, suffix |-> suffix, ext |-> ".png"]

\* lines 42-46: f"{today}/{unique_id}_{suffix}.png"
UniquePath(day, id, suffix) ==
    [date |-> day, id |-> id, suffix |-> suffix, ext |-> ".png"]

\* line 112: .replace(".png", ".jpg")
ReplacePngByJpg(path) ==
    [path EXCEPT !.suffix = IF @ = ".png" THEN ".jpg" ELSE @,
                 !.ext = IF @ = ".png" THEN ".jpg" ELSE @]

NoUrl == [bucket |-> "", path |-> NoPath]

\* supabase.storage.from_(SUPABASE_BUCKET).get_public_url(path)
PublicUrl(path) == [bucket |-> "photos", path |-> path]

\* upload(path, file, {"upsert": "true"}): replaces the object at the path
Upload(objects, obj) == {o \in objects : o.path # obj.path} \cup {obj}

----------------------------------------------------------------------------
(* Requests *)

Keys == {"imagem", "tamanho", "salvar_original"}

\* a JSON object with the keys D
MkData(D, imagem, tamanho, salvar) ==
    [k \in D |-> CASE k = "imagem" -> imagem
                   [] k = "tamanho" -> tamanho
                   [] OTHER -> salvar]

Imagens ==
    {<<Header, ",", c>> : c \in PayloadChunks}
    \cup {<<Header, ",">>, <<Header>>, <<"b64:png:white1x1">>, <<>>,
          <<Header, ",", "b64:png:white1x1", ",", "b64:text">>}

Tamanhos ==
    {<<JInt(a), JInt(b)>> : a \in 0..MaxH, b \in 0..MaxW}
    \cup {<<JFloat(2 * MaxH - 1), JInt(MaxW)>>, <<JInt(-1), JInt(MaxW)>>,
          <<JText, JInt(MaxW)>>, <<JInt(MaxH)>>, <<JInt(MaxH), JInt(MaxW), JInt(MaxW)>>}

Requests ==
    {[is_json |-> j, data |-> MkData(D, i, t, s)] :
        j \in {TRUE}, D \in SUBSET Keys, i \in Imagens, t \in Tamanhos, s \in BOOLEAN}
    \cup {[is_json |-> FALSE, data |-> MkData(Keys, <<Header, ",", "b64:png:white1x1">>,
                                              <<JInt(MaxH), JInt(MaxW)>>, TRUE)]}

\* the requests of the concurrent specification: a decodable image, a valid size
\* (salvar_original left to its default)
ConcRequests ==
    {[is_json |-> TRUE,
      data |-> MkData({"imagem", "tamanho"}, <<Header, ",", "b64:png:white1x1">>,
                      <<JInt(1), JInt(1)>>, TRUE)]}

NoRequest == [is_json |-> FALSE, data |-> MkData({}, <<>>, <<>>, TRUE)]

----------------------------------------------------------------------------
(* Responses and events *)

ErrorResponse(status, message) == [status |-> status, erro |-> message, body |-> <<>>]

\* lines 183-196; body is a sequence holding the one JSON object
SuccessResponse(l) ==
    [status |-> 200, erro |-> "",
     body |-> <<[dimensao_original |-> <<l.img_rgb.h, l.img_rgb.w>>,
                 dimensao_processada |-> <<l.h, l.w>>,
                 valor_min |-> l.vmin,
                 valor_max |-> l.vmax,
                 arquivo_salvo |-> l.path_normalizada,
                 arquivo_salvo_url |-> PublicUrl(l.path_normalizada),
                 arquivo_original |-> l.arquivo_original,
                 arquivo_original_url |-> l.arquivo_original_url,
                 imagem_processada_base64 |-> l.png]>>]

\* a stage run or a storage call made, with its outcome; for a storage call the
\* path it names, and for an upload the uuid and the day its path was drawn with
Event(name, ok) == [ev |-> name, ok |-> ok, path |-> NoPath, uuid |-> 0, day |-> 0]
StorageEvent(name, ok, path, uuid, day) ==
    [ev |-> name, ok |-> ok, path |-> path, uuid |-> uuid, day |-> day]

StorageCalls == {"upload_original", "url_original", "upload_normalizada", "url_normalizada"}
UploadCalls == {"upload_original", "upload_normalizada"}
DecodeStages == {"b64decode", "imdecode"}
ProcessingStages == {"imencode_jpg", "rgb2gray", "resize", "normalize", "quantize", "imencode_png"}

InitLoc ==
    [salvar_original |-> TRUE, b64 |-> <<>>, img_rgb |-> NoImage,
     path_original |-> NoPath, uuid_original |-> 0, day_original |-> 0,
     arquivo_original |-> NoPath, arquivo_original_url |-> NoUrl,
     img_gray_f |-> NoBuffer, h |-> 0, w |-> 0,
     proc_r |-> NoBuffer, proc_f |-> NoNormBuffer, vmin |-> Zero, vmax |-> Zero,
     proc_u8 |-> NoBuffer, png |-> NoBuffer,
     path_normalizada |-> NoPath, uuid_normalizada |-> 0, day_normalizada |-> 0]

Init ==
    /\ pc = [w \in Workers |-> "idle"]
    /\ req = [w \in Workers |-> NoRequest]
    /\ loc = [w \in Workers |-> InitLoc]
    /\ resp = [w \in Workers |-> <<>>]
    /\ events = [w \in Workers |-> <<>>]
    /\ bucket = {}
    /\ today = 0

----------------------------------------------------------------------------
(* Steps of processar_foto *)

\* the handler goes on to the step `next`, having run the stages evs
Goto(w, next, evs) ==
    /\ pc' = [pc EXCEPT ![w] = next]
    /\ events' = [events EXCEPT ![w] = @ \o evs]
    /\ resp' = resp

\* the handler returns the response r, having run the stages evs
Return(w, r, evs) ==
    /\ pc' = [pc EXCEPT ![w] = "done"]
    /\ events' = [events EXCEPT ![w] = @ \o evs]
    /\ resp' = [resp EXCEPT ![w] = Append(@, r)]

\* lines 198-202: except Exception as e: return jsonify({"erro": str(e)}), 500
Raise(w, exception, evs) == Return(w, ErrorResponse(500, exception), evs)

\* a request arrives at worker w
Receive(w, r) ==
    /\ pc[w] = "idle"
    /\ req' = [req EXCEPT ![w] = r]
    /\ Goto(w, "check", <<>>)
    /\ UNCHANGED <<loc, bucket, today>>

\* lines 64-79: the checks of the payload
CheckRequest(w) ==
    /\ pc[w] = "check"
    /\ LET data == req[w].data
       IN IF ~req[w].is_json
          THEN /\ Return(w, ErrorResponse(400, "Content-Type deve ser application/json"), <<>>)
               /\ loc' = loc
          ELSE IF DOMAIN data = {}
          THEN /\ Return(w, ErrorResponse(400, "Body vazio"), <<>>)
               /\ loc' = loc
          ELSE IF "imagem" \notin DOMAIN data \/ "tamanho" \notin DOMAIN data
          THEN /\ Return(w, ErrorResponse(400, "Payload invalido - faltam 'imagem' e/ou 'tamanho'"), <<>>)
               /\ loc' = loc
          ELSE /\ loc' = [loc EXCEPT ![w].salvar_original =
                              IF "salvar_original" \in DOMAIN data
                              THEN data["salvar_original"] ELSE TRUE]
               /\ Goto(w, "extract", <<>>)
    /\ UNCHANGED <<req, bucket, today>>

\* lines 82-86: the base64 payload of the data URL
Extract(w) ==
    /\ pc[w] = "extract"
    /\ LET x == ExtractB64(req[w].data["imagem"])
       IN IF x.ok
          THEN /\ loc' = [loc EXCEPT ![w].b64 = x.b64]
               /\ Goto(w, "decode", <<Event("extract", TRUE)>>)
          ELSE /\ loc' = loc
               /\ Return(w, ErrorResponse(400, "Formato de imagem invalido (esperado dataURL)"),
                         <<Event("extract", FALSE)>>)
    /\ UNCHANGED <<req, bucket, today>>

\* lines 88-95: base64.b64decode, cv2.imdecode, cv2.cvtColor
Decode(w) ==
    /\ pc[w] = "decode"
    /\ LET d == B64Decode(loc[w].b64)
       IN IF ~d.ok
          THEN /\ loc' = loc
               /\ Raise(w, "binascii.Error", <<Event("b64decode", FALSE)>>)
          ELSE \E o \in ImDecodeOutcomes(d.bytes) :
                 CASE o = "raise" ->
                        /\ loc' = loc
                        /\ Raise(w, "cv2.error",
                                 <<Event("b64decode", TRUE), Event("imdecode", FALSE)>>)
                   [] o = "none" ->
                        /\ loc' = loc
                        /\ Return(w, ErrorResponse(400, "Falha ao decodificar imagem"),
                                  <<Event("b64decode", TRUE), Event("imdecode", FALSE)>>)
                   [] OTHER ->
                        /\ loc' = [loc EXCEPT ![w].img_rgb = SwapChannels(ImageOf(d.bytes))]
                        /\ Goto(w, "save_original",
                                <<Event("b64decode", TRUE), Event("imdecode", TRUE)>>)
    /\ UNCHANGED <<req, bucket, today>>

\* lines 98-112: if salvar_original, encode the original as JPEG and draw its path
EncodeOriginal(w) ==
    /\ pc[w] = "save_original"
    /\ IF ~loc[w].salvar_original
       THEN /\ loc' = loc
            /\ Goto(w, "gray", <<>>)
       ELSE \E ok_jpg \in BOOLEAN, unique_id \in 1..MaxUuid :
              IF ~ok_jpg
              THEN /\ loc' = loc
                   /\ Goto(w, "gray", <<Event("imencode_jpg", FALSE)>>)
              ELSE /\ loc' = [loc EXCEPT
                                ![w].path_original =
                                    ReplacePngByJpg(UniquePath(today, unique_id, "original")),
                                ![w].uuid_original = unique_id,
                                ![w].day_original = today]
                   /\ Goto(w, "upload_original", <<Event("imencode_jpg", TRUE)>>)
    /\ UNCHANGED <<req, bucket, today>>

\* lines 114-122 and 126-127: the upload of the original; a failure is only logged
UploadOriginal(w) ==
    /\ pc[w] = "upload_original"
    /\ LET l == loc[w]
       IN \E ok \in BOOLEAN :
            LET e == StorageEvent("upload_original", ok, l.path_original,
                                  l.uuid_original, l.day_original)
            IN IF ok
               THEN /\ bucket' = Upload(bucket, [path |-> l.path_original,
                                                 content_type |-> "image/jpeg", by |-> w])
                    /\ loc' = [loc EXCEPT ![w].arquivo_original = l.path_original]
                    /\ Goto(w, "url_original", <<e>>)
               ELSE /\ bucket' = bucket
                    /\ loc' = loc
                    /\ Goto(w, "gray", <<e>>)
    /\ UNCHANGED <<req, today>>

\* lines 123-127: get_public_url of the original, inside the same try
UrlOriginal(w) ==
    /\ pc[w] = "url_original"
    /\ LET l == loc[w]
       IN \E ok \in BOOLEAN :
            /\ loc' = IF ok
                      THEN [loc EXCEPT ![w].arquivo_original_url = PublicUrl(l.path_original)]
                      ELSE loc
            /\ Goto(w, "gray", <<StorageEvent("url_original", ok, l.path_original, 0, 0)>>)
    /\ UNCHANGED <<req, bucket, today>>

\* lines 130-133: img_rgb.ndim is always 3 after IMREAD_COLOR
ToGray(w) ==
    /\ pc[w] = "gray"
    /\ loc' = [loc EXCEPT ![w].img_gray_f = Rgb2Gray(loc[w].img_rgb)]
    /\ Goto(w, "resize", <<Event("rgb2gray", TRUE)>>)
    /\ UNCHANGED <<req, bucket, today>>

\* lines 136-143: the target size and the resize
Resize(w) ==
    /\ pc[w] = "resize"
    /\ LET t == ParseTamanho(req[w].data["tamanho"])
       IN IF ~t.ok
          THEN /\ loc' = loc
               /\ Raise(w, "ValueError", <<>>)
          ELSE \E r \in ResizeOutcomes(loc[w].img_gray_f, t.h, t.w) :
                 IF r.ok
                 THEN /\ loc' = [loc EXCEPT ![w].h = t.h, ![w].w = t.w, ![w].proc_r = r.buf]
                      /\ Goto(w, "normalize", <<Event("resize", TRUE)>>)
                 ELSE /\ loc' = [loc EXCEPT ![w].h = t.h, ![w].w = t.w]
                      /\ Raise(w, "ValueError", <<Event("resize", FALSE)>>)
    /\ UNCHANGED <<req, bucket, today>>

\* lines 146-151: the normalization and the reported range; max() of an
\* empty array raises ValueError
Normalize(w) ==
    /\ pc[w] = "normalize"
    /\ LET l == loc[w]
       IN IF DOMAIN l.proc_r.px = {}
          THEN /\ loc' = loc
               /\ Raise(w, "ValueError", <<Event("normalize", FALSE)>>)
          ELSE LET n == NormalizeBuf(l.proc_r)
                   vals == {n.px[p] : p \in DOMAIN n.px}
               IN /\ loc' = [loc EXCEPT ![w].proc_f = n,
                                        ![w].vmin = RatMin(vals),
                                        ![w].vmax = RatMax(vals)]
                  /\ Goto(w, "encode", <<Event("normalize", TRUE)>>)
    /\ UNCHANGED <<req, bucket, today>>

\* lines 154-167: quantize, encode as PNG, draw the path of the processed image
QuantizeEncode(w) ==
    /\ pc[w] = "encode"
    /\ LET u8 == Quantize(loc[w].proc_f)
       IN \E ok \in BOOLEAN, unique_id \in 1..MaxUuid :
            IF ~ok
            THEN /\ loc' = [loc EXCEPT ![w].proc_u8 = u8]
                 /\ Return(w, ErrorResponse(500, "Falha ao codificar PNG"),
                           <<Event("quantize", TRUE), Event("imencode_png", FALSE)>>)
            ELSE /\ loc' = [loc EXCEPT
                              ![w].proc_u8 = u8,
                              ![w].png = u8,
                              ![w].path_normalizada = UniquePath(today, unique_id, "normalizada"),
                              ![w].uuid_normalizada = unique_id,
                              ![w].day_normalizada = today]
                 /\ Goto(w, "upload", <<Event("quantize", TRUE), Event("imencode_png", TRUE)>>)
    /\ UNCHANGED <<req, bucket, today>>

\* the except clause of the original's upload (lines 126-127) copied to this one
UploadNormalizadaSwallow(w) ==
    /\ pc[w] = "upload"
    /\ LET l == loc[w]
       IN \E ok \in BOOLEAN :
            LET e == StorageEvent("upload_normalizada", ok, l.path_normalizada,
                                  l.uuid_normalizada, l.day_normalizada)
            IN /\ bucket' = IF ok
                            THEN Upload(bucket, [path |-> l.path_normalizada,
                                                 content_type |-> "image/png", by |-> w])
                            ELSE bucket
               /\ Goto(w, "respond", <<e>>)
    /\ UNCHANGED <<req, loc, today>>

\* lines 169-178: the upload of the processed image; a failure ends the request
UploadNormalizada(w) ==
    /\ pc[w] = "upload"
    /\ LET l == loc[w]
       IN \E ok \in BOOLEAN :
            LET e == StorageEvent("upload_normalizada", ok, l.path_normalizada,
                                  l.uuid_normalizada, l.day_normalizada)
            IN IF ok
               THEN /\ bucket' = Upload(bucket, [path |-> l.path_normalizada,
                                                 content_type |-> "image/png", by |-> w])
                    /\ Goto(w, "respond", <<e>>)
               ELSE /\ bucket' = bucket
                    /\ Return(w, ErrorResponse(500, "Falha no upload Supabase"), <<e>>)
    /\ UNCHANGED <<req, loc, today>>

\* lines 180-196: get_public_url of the processed image (outside the inner
\* try: a failure reaches the handler of line 198) and the success response
Respond(w) ==
    /\ pc[w] = "respond"
    /\ LET l == loc[w]
       IN \E ok \in BOOLEAN :
            LET e == StorageEvent("url_normalizada", ok, l.path_normalizada, 0, 0)
            IN IF ok
               THEN Return(w, SuccessResponse(l), <<e>>)
               ELSE Raise(w, "StorageException", <<e>>)
    /\ UNCHANGED <<req, loc, bucket, today>>

\* midnight UTC passes
Tick ==
    /\ today < MaxDay
    /\ today' = today + 1
    /\ UNCHANGED <<pc, req, loc, resp, events, bucket>>

Handler(w) ==
    \/ CheckRequest(w)
    \/ Extract(w)
    \/ Decode(w)
    \/ EncodeOriginal(w)
    \/ UploadOriginal(w)
    \/ UrlOriginal(w)
    \/ ToGray(w)
    \/ Resize(w)
    \/ Normalize(w)
    \/ QuantizeEncode(w)
    \/ UploadNormalizada(w)
    \/ Respond(w)

\* one request, drawn from Requests, handled by worker 1
Next ==
    \/ \E r \in Requests : Receive(SetMin(Workers), r)
    \/ Handler(SetMin(Workers))

Spec == Init /\ [][Next]_vars

\* concurrent requests, one per worker, across midnight
NextConc ==
    \/ \E w \in Workers, r \in ConcRequests : Receive(w, r)
    \/ \E w \in Workers : Handler(w)
    \/ Tick

SpecConc == Init /\ [][NextConc]_vars

----------------------------------------------------------------------------
(* Vocabulary of the properties *)

Done(w) == pc[w] = "done"
Response(w) == resp[w][1]
IsSuccess(r) == r.status = 200
\* a non-2xx status and a payload {"erro": ...}
IsError(r) == r.status \notin 200..299 /\ r.erro # ""

EventsOf(w, names) == {i \in 1..Len(events[w]) : events[w][i].ev \in names}
Ran(w, names) == EventsOf(w, names) # {}
RanOk(w, name) == \E i \in EventsOf(w, {name}) : events[w][i].ok

\* the request carries both fields as JSON
HasFields(w) ==
    /\ pc[w] # "idle"
    /\ req[w].is_json
    /\ {"imagem", "tamanho"} \subseteq DOMAIN req[w].data

NoComma(s) == \A i \in 1..Len(s) : s[i] # ","

\* the request of w carries an image that decodes
Decodable(w) ==
    /\ HasFields(w)
    /\ \E i \in 1..Len(req[w].data["imagem"]) :
         /\ req[w].data["imagem"][i] = ","
         /\ i < Len(req[w].data["imagem"])
         /\ FileOfChunk(req[w].data["imagem"][i + 1]) \in ImageFiles
         /\ NoComma(SubSeq(req[w].data["imagem"], 1, i - 1))
         /\ (i + 2 <= Len(req[w].data["imagem"]) => req[w].data["imagem"][i + 2] = ",")

\* every upload call made so far, as <<worker, index in the worker's events>>
AllUploads ==
    UNION {{<<w, i>> : i \in EventsOf(w, UploadCalls)} : w \in Workers}
EventAt(c) == events[c[1]][c[2]]

----------------------------------------------------------------------------
(* C1: a request whose image decodes and whose target size has a height or *)
(* a width of 0 ends in an error response, and no storage call is made     *)
(* during it, whatever salvar_original is.                                  *)
C1_ZeroSizeNoStorageCall ==
    \A w \in Workers :
        (/\ Decodable(w)
         /\ \E a \in 0..MaxH, b \in 0..MaxW :
              /\ a = 0 \/ b = 0
              /\ req[w].data["tamanho"] = <<JInt(a), JInt(b)>>)
        => /\ ~Ran(w, StorageCalls)
           /\ Done(w) => IsError(Response(w))

(* C2: a request that ends with an error response has uploaded no object.   *)
C2_ErrorMeansNothingUploaded ==
    \A w \in Workers :
        (Done(w) /\ IsError(Response(w)))
        => \A i \in EventsOf(w, UploadCalls) : ~events[w][i].ok

(* C3: if any storage call of a request fails, the request ends with an     *)
(* error response.                                                          *)
C3_StorageFailureMeansError ==
    \A w \in Workers :
        (Done(w) /\ \E i \in EventsOf(w, StorageCalls) : ~events[w][i].ok)
        => IsError(Response(w))

(* C4: a JSON request with imagem and tamanho whose imagem has no comma     *)
(* ends with an error response, and no decode, processing stage or storage  *)
(* call is run for it.                                                      *)
C4_NoCommaIsRejected ==
    \A w \in Workers :
        (HasFields(w) /\ NoComma(req[w].data["imagem"]))
        => /\ ~Ran(w, DecodeStages \cup ProcessingStages \cup StorageCalls)
           /\ Done(w) => IsError(Response(w))
           /\ pc[w] \in {"check", "extract", "done"}

C4_Witness ==
    /\ HasFields(1) /\ NoComma(req[1].data["imagem"]) /\ req[1].data["imagem"] # <<>>
    /\ Done(1) /\ Response(1).status = 400
    /\ events[1] = <<Event("extract", FALSE)>>

(* C5: with maxv the largest resampled sample: if maxv > 0 every sample is  *)
(* divided by maxv, valor_max is 1 and valor_min is (smallest sample)/maxv; *)
(* if maxv = 0 the buffer is unchanged and valor_min = valor_max = 0.       *)
(* Always valor_min <= valor_max, and they are the smallest and the largest *)
(* sample of the buffer that is quantized, and the values reported.         *)
C5_Normalization ==
    \A w \in Workers :
        RanOk(w, "normalize") =>
        LET l == loc[w]
            maxv == SetMax(Samples(l.proc_r))
            minv == SetMin(Samples(l.proc_r))
            P == DOMAIN l.proc_r.px
        IN /\ DOMAIN l.proc_f.px = P
           /\ maxv > 0 =>
                /\ \A p \in P : l.proc_f.px[p] = <<l.proc_r.px[p], maxv>>
                /\ RatEq(l.vmax, One)
                /\ RatEq(l.vmin, <<minv, maxv>>)
           /\ maxv = 0 =>
                /\ \A p \in P : l.proc_f.px[p] = <<l.proc_r.px[p], GrayDen>>
                /\ RatEq(l.vmin, Zero) /\ RatEq(l.vmax, Zero)
           /\ maxv >= 0
           /\ RatLeq(l.vmin, l.vmax)
           /\ \A p \in P : RatLeq(l.vmin, l.proc_f.px[p]) /\ RatLeq(l.proc_f.px[p], l.vmax)
           /\ \E p \in P : l.proc_f.px[p] = l.vmin
           /\ \E p \in P : l.proc_f.px[p] = l.vmax
           /\ Ran(w, {"quantize"}) =>
                \A p \in P : l.proc_u8.px[p] = QuantizeSample(l.proc_f.px[p])
           /\ (Done(w) /\ IsSuccess(Response(w))) =>
                /\ Response(w).body[1].valor_min = l.vmin
                /\ Response(w).body[1].valor_max = l.vmax

\* a successful request whose resampled buffer is neither constant nor black
C5_Witness ==
    /\ Done(1) /\ IsSuccess(Response(1))
    /\ RatEq(loc[1].vmax, One)
    /\ ~RatLeq(loc[1].vmin, Zero)
    /\ ~RatLeq(One, loc[1].vmin)
    /\ \E p \in DOMAIN loc[1].proc_u8.px : loc[1].proc_u8.px[p] \notin {0, MaxU8}

(* C6: a successful request with tamanho = [h, w], h >= 1 and w >= 1, has   *)
(* quantized and encoded a buffer of h rows and w columns, reports          *)
(* dimensao_processada = [h, w], and reports as dimensao_original the       *)
(* height and width of the decoded input image.                             *)
C6_Dimensions ==
    \A w \in Workers :
        (Done(w) /\ IsSuccess(Response(w))) =>
        \A a \in 1..MaxH, b \in 1..MaxW :
            req[w].data["tamanho"] = <<JInt(a), JInt(b)>> =>
            LET l == loc[w]
                body == Response(w).body[1]
                input == ImageOf(B64Decode(ExtractB64(req[w].data["imagem"]).b64).bytes)
            IN /\ l.proc_u8.h = a /\ l.proc_u8.w = b
               /\ DOMAIN l.proc_u8.px = Pixels(a, b)
               /\ body.imagem_processada_base64 = l.proc_u8
               /\ body.dimensao_processada = <<a, b>>
               /\ body.dimensao_original = <<input.h, input.w>>
               /\ input # NoImage

\* a 1x2 image resized to 2x1
C6_Witness ==
    /\ Done(1) /\ IsSuccess(Response(1))
    /\ req[1].data["tamanho"] = <<JInt(2), JInt(1)>>
    /\ Response(1).body[1].dimensao_original = <<1, 2>>
    /\ Response(1).body[1].dimensao_processada = <<2, 1>>

BadPayload(w) ==
    /\ HasFields(w)
    /\ ~NoComma(req[w].data["imagem"])
    /\ ~Decodable(w)

(* C8: a request whose image payload is empty, truncated, not valid base64  *)
(* or not an image ends with the decode-failure response (status 400,       *)
(* "Falha ao decodificar imagem"), not the generic one, and no processing   *)
(* stage or storage call is run.                                            *)
C8_BadPayloadIsDecodeError ==
    \A w \in Workers :
        BadPayload(w) =>
        /\ ~Ran(w, ProcessingStages \cup StorageCalls)
        /\ Done(w) => Response(w) = ErrorResponse(400, "Falha ao decodificar imagem")

(* C9: in a success response arquivo_original and arquivo_original_url are  *)
(* both null or both non-null; both null when salvar_original is false, and *)
(* then no upload of the original is attempted; when non-null, the path is  *)
(* one whose upload succeeded in this request.                              *)
C9_OriginalFieldsAgree ==
    \A w \in Workers :
        (Done(w) /\ IsSuccess(Response(w))) =>
        LET body == Response(w).body[1]
        IN /\ (body.arquivo_original = NoPath) <=> (body.arquivo_original_url = NoUrl)
           /\ ("salvar_original" \in DOMAIN req[w].data /\ ~req[w].data["salvar_original"]) =>
                /\ body.arquivo_original = NoPath
                /\ ~Ran(w, {"upload_original", "url_original"})
           /\ body.arquivo_original # NoPath =>
                \E i \in EventsOf(w, {"upload_original"}) :
                    events[w][i].ok /\ events[w][i].path = body.arquivo_original

(* C10: the processed image is uploaded at most once, and only after        *)
(* decode, resize, normalization and PNG encoding have succeeded; its       *)
(* get_public_url is called only after that upload succeeded; a success     *)
(* response carries an arquivo_salvo whose upload succeeded in the request; *)
(* a request ends with exactly one response, and never stops before it.     *)
C10_ProcessedUploadOnceAndLast ==
    \A w \in Workers :
        /\ Cardinality(EventsOf(w, {"upload_normalizada"})) <= 1
        /\ \A i \in EventsOf(w, {"upload_normalizada"}) :
             \A stage \in {"imdecode", "resize", "normalize", "imencode_png"} :
                 \E j \in 1..(i - 1) : events[w][j].ev = stage /\ events[w][j].ok
        /\ \A i \in EventsOf(w, {"url_normalizada"}) :
             \E j \in 1..(i - 1) :
                 /\ events[w][j].ev = "upload_normalizada"
                 /\ events[w][j].ok
                 /\ events[w][j].path = events[w][i].path
        /\ (Done(w) /\ IsSuccess(Response(w))) =>
             /\ Response(w).body[1].arquivo_salvo # NoPath
             /\ \E i \in EventsOf(w, {"upload_normalizada"}) :
                    /\ events[w][i].ok
                    /\ events[w][i].path = Response(w).body[1].arquivo_salvo
             /\ [path |-> Response(w).body[1].arquivo_salvo,
                 content_type |-> "image/png", by |-> w] \in bucket
        /\ Len(resp[w]) = IF Done(w) THEN 1 ELSE 0
        /\ pc[w] \notin {"idle", "done"} => ENABLED Handler(w)

\* a request answered with success after its processed upload and URL call
C10_Witness ==
    /\ Done(1) /\ IsSuccess(Response(1))
    /\ RanOk(1, "upload_normalizada") /\ RanOk(1, "url_normalizada")
    /\ Len(resp[1]) = 1

====
